---- MODULE Spec2Model ----
(***************************************************************************)
(* A model of src/src/main.rs: the NIfTI triple-axis viewer.               *)
(*                                                                         *)
(* Numbers.  Every f32/f64 of the source is modelled by an exact integer;  *)
(* the inputs are drawn from values (small integers, and halves for the    *)
(* quaternion) on which the source's floating-point arithmetic is exact.   *)
(* The two places where floating point leaves the rationals are modelled   *)
(* by what the build does: a division by zero (NaN or an infinity) and the *)
(* saturating cast `as isize` (F32DivRoundAsIsize).                        *)
(*                                                                         *)
(* Arrays keep the source's 0-based indices: a [T; 3] is a function on     *)
(* Axes = 0..2, a header row [f32; 4] a function on 0..3.  Option<T> is a  *)
(* sequence of length at most one: None = <<>>, Some(x) = <<x>>.           *)
(***************************************************************************)
EXTENDS Integers, Sequences, FiniteSets, TLC

\* Largest extent of a decoded grid along one axis.
MaxDim == 2
\* Largest magnitude of one frame's scroll delta, in half steps (15 units).
MaxNotch == 2
\* Largest magnitude of a display mm value handed to mm_to_voxel.
MaxMm == 4

Axes == 0..2

None == <<>>

Some(x) == <<x>>

IsSome(o) == Len(o) = 1

Unwrap(o) == o[1]

Vec3(x, y, z) == [a \in Axes |-> IF a = 0 THEN x ELSE IF a = 1 THEN y ELSE z]

Vec4(x, y, z, w) == [a \in 0..3 |-> IF a = 0 THEN x ELSE IF a = 1 THEN y ELSE IF a = 2 THEN z ELSE w]

Abs(x) == IF x < 0 THEN -x ELSE x

-----------------------------------------------------------------------------
(* The decoded inputs: a header record and a dense 3D grid.                *)

\* The index set of a grid of the given shape.
Indices(shape) == {i \in [Axes -> 0..(MaxDim - 1)] : \A a \in Axes : i[a] < shape[a]}

\* The grid the decoder yields.  Each voxel's value is its own original
\* index, so that every voxel is told apart from every other one.
RawVolume(shape) == [shape |-> shape, data |-> [i \in Indices(shape) |-> i]]

\* f64 sqrt on the perfect squares the quaternion inputs produce.
Sqrt(x) == CHOOSE r \in 0..2 : r * r = x

\* Lines 31-51 on a quaternion given in halves (qb = 2b, qc = 2c, qd = 2d):
\* the matrix returned is 4 * r of the source.
QuaternRotation4(qb, qc, qd) ==
    LET rad == 4 - qb * qb - qc * qc - qd * qd
        a == Sqrt(IF rad > 0 THEN rad ELSE 0)
        b == qb
        c == qc
        d == qd
    IN  [row \in Axes |->
            IF row = 0 THEN Vec3(a * a + b * b - c * c - d * d, 2 * (b * c - a * d), 2 * (b * d + a * c))
            ELSE IF row = 1 THEN Vec3(2 * (b * c + a * d), a * a + c * c - b * b - d * d, 2 * (c * d - a * b))
            ELSE Vec3(2 * (b * d - a * c), 2 * (c * d + a * b), a * a + d * d - b * b - c * c)]

\* The quaternions (in halves) on which lines 31-51 are exact in integers:
\* the radicand is a perfect square and every entry of r is an integer.
\* It holds the identity, the 120 degree rotation (1/2,1/2,1/2), the 180
\* degree rotations and the malformed (norm > 1) (1,1,0)... and (1,1,1).
QuaternComponents == 0..2

Quaternions ==
    {q \in [Axes -> QuaternComponents] :
        LET rad == 4 - q[0] * q[0] - q[1] * q[1] - q[2] * q[2]
            r4 == QuaternRotation4(q[0], q[1], q[2])
        IN  /\ (IF rad > 0 THEN rad ELSE 0) \in {0, 1, 4}
            /\ \A row \in Axes : \A col \in Axes : r4[row][col] % 4 = 0}


\* A NiftiHeader, as far as the program reads it.  m is the 3x3 part of the
\* sform rows (m[row][col]) and t their 4th column; q is the quaternion in
\* halves, qt the qform offsets, pd is pixdim[0..3].
Header(sc, qc, m, t, q, qt, pd) ==
    [sform_code |-> sc, qform_code |-> qc,
     srow_x |-> Vec4(m[0][0], m[0][1], m[0][2], t[0]),
     srow_y |-> Vec4(m[1][0], m[1][1], m[1][2], t[1]),
     srow_z |-> Vec4(m[2][0], m[2][1], m[2][2], t[2]),
     quatern_b |-> q[0], quatern_c |-> q[1], quatern_d |-> q[2],
     quatern_x |-> qt[0], quatern_y |-> qt[1], quatern_z |-> qt[2],
     pixdim |-> pd]

-----------------------------------------------------------------------------
(* AffineExtractor: get_affine_3x3 and get_translation.                    *)

\* A variant of get_affine_3x3 that applies qfac to the third spacing of the
\* spacing-only branch as well.
get_affine_3x3_qfac_in_fallback(hdr) ==
    IF hdr.sform_code > 0 THEN
        [row \in Axes |->
            IF row = 0 THEN Vec3(hdr.srow_x[0], hdr.srow_x[1], hdr.srow_x[2])
            ELSE IF row = 1 THEN Vec3(hdr.srow_y[0], hdr.srow_y[1], hdr.srow_y[2])
            ELSE Vec3(hdr.srow_z[0], hdr.srow_z[1], hdr.srow_z[2])]
    ELSE
        LET qfac == IF hdr.pixdim[0] < 0 THEN -1 ELSE 1
            p == Vec3(hdr.pixdim[1], hdr.pixdim[2], hdr.pixdim[3] * qfac)
        IN  IF hdr.qform_code > 0 THEN
                LET r4 == QuaternRotation4(hdr.quatern_b, hdr.quatern_c, hdr.quatern_d)
                IN  [row \in Axes |-> [col \in Axes |-> (r4[row][col] \div 4) * p[col]]]
            ELSE
                [row \in Axes |-> [col \in Axes |-> IF row = col THEN p[col] ELSE 0]]

\* The governing branch of get_affine_3x3, lines 24, 30, 59.
get_affine_3x3(hdr) ==
    IF hdr.sform_code > 0 THEN
        [row \in Axes |->
            IF row = 0 THEN Vec3(hdr.srow_x[0], hdr.srow_x[1], hdr.srow_x[2])
            ELSE IF row = 1 THEN Vec3(hdr.srow_y[0], hdr.srow_y[1], hdr.srow_y[2])
            ELSE Vec3(hdr.srow_z[0], hdr.srow_z[1], hdr.srow_z[2])]
    ELSE IF hdr.qform_code > 0 THEN
        LET r4 == QuaternRotation4(hdr.quatern_b, hdr.quatern_c, hdr.quatern_d)
            qfac == IF hdr.pixdim[0] < 0 THEN -1 ELSE 1
            p == Vec3(hdr.pixdim[1], hdr.pixdim[2], hdr.pixdim[3] * qfac)
        IN  [row \in Axes |-> [col \in Axes |-> (r4[row][col] \div 4) * p[col]]]
    ELSE
        [row \in Axes |->
            IF row = 0 THEN Vec3(hdr.pixdim[1], 0, 0)
            ELSE IF row = 1 THEN Vec3(0, hdr.pixdim[2], 0)
            ELSE Vec3(0, 0, hdr.pixdim[3])]

\* A variant of get_translation that asks for the qform first.
get_translation_qform_first(hdr) ==
    IF hdr.qform_code > 0 THEN Vec3(hdr.quatern_x, hdr.quatern_y, hdr.quatern_z)
    ELSE IF hdr.sform_code > 0 THEN Vec3(hdr.srow_x[3], hdr.srow_y[3], hdr.srow_z[3])
    ELSE Vec3(0, 0, 0)

get_translation(hdr) ==
    IF hdr.sform_code > 0 THEN Vec3(hdr.srow_x[3], hdr.srow_y[3], hdr.srow_z[3])
    ELSE IF hdr.qform_code > 0 THEN Vec3(hdr.quatern_x, hdr.quatern_y, hdr.quatern_z)
    ELSE Vec3(0, 0, 0)

-----------------------------------------------------------------------------
(* AxisReorienter: reorient_to_ras, step by step.                          *)

\* The inner loop of lines 92-100 for one column: the first row holding the
\* strictly largest magnitude, row 0 when the column is all zero.
best_row(affine, col) ==
    LET step(best, row) ==
            IF Abs(affine[row][col]) > best.best_val
            THEN [best_row |-> row, best_val |-> Abs(affine[row][col])]
            ELSE best
        b0 == [best_row |-> 0, best_val |-> 0]
    IN  step(step(step(b0, 0), 1), 2).best_row

voxel_to_world(affine) == [col \in Axes |-> best_row(affine, col)]

voxel_flip(affine) == [col \in Axes |-> affine[best_row(affine, col)][col] < 0]

\* Lines 106-109: the loop writes world_to_voxel[voxel_to_world[col]] = col
\* for col = 0, 1, 2 in turn into an array of zeros.
world_to_voxel(v2w) ==
    LET w0 == Vec3(0, 0, 0)
        w1 == [w0 EXCEPT ![v2w[0]] = 0]
        w2 == [w1 EXCEPT ![v2w[1]] = 1]
    IN  [w2 EXCEPT ![v2w[2]] = 2]

ras_spacing(hdr, w2v) ==
    LET orig_spacing == Vec3(hdr.pixdim[1], hdr.pixdim[2], hdr.pixdim[3])
    IN  [a \in Axes |-> orig_spacing[w2v[a]]]

\* A variant of needs_flip that reads voxel_flip by the world axis.
needs_flip_unpermuted(flip, w2v) == [a \in Axes |-> flip[a]]

needs_flip(flip, w2v) == [a \in Axes |-> flip[w2v[a]]]

\* ndarray's permuted_axes panics unless every axis is listed exactly once.
IsPermutation(axes) == \A v \in Axes : \E a \in Axes : axes[a] = v

\* ndarray: axis a of the result is axis axes[a] of the array.
permuted_axes(vol, axes) ==
    LET shape == [a \in Axes |-> vol.shape[axes[a]]]
    IN  [shape |-> shape,
         data |-> [i \in Indices(shape) |->
                     vol.data[[v \in Axes |-> i[CHOOSE a \in Axes : axes[a] = v]]]]]

\* ndarray: slicing one axis with step -1 reverses it.
reverse_axis(vol, axis) ==
    [shape |-> vol.shape,
     data |-> [i \in Indices(vol.shape) |->
                 vol.data[[i EXCEPT ![axis] = vol.shape[axis] - 1 - i[axis]]]]]

\* Lines 120-142: permute, then reverse axes 0, 1, 2 as needs_flip says.
permute_and_flip(volume, w2v, nf) ==
    LET vol0 == permuted_axes(volume, w2v)
        vol1 == IF nf[0] THEN reverse_axis(vol0, 0) ELSE vol0
        vol2 == IF nf[1] THEN reverse_axis(vol1, 1) ELSE vol1
    IN  IF nf[2] THEN reverse_axis(vol2, 2) ELSE vol2

\* A variant of orig_ijk that writes entry a instead of entry world_to_voxel[a].
orig_ijk_by_world_axis(orig_shape, w2v, nf) ==
    LET set(ijk, a) == [ijk EXCEPT ![a] = IF nf[a] THEN orig_shape[a] - 1 ELSE 0]
    IN  set(set(set(Vec3(0, 0, 0), 0), 1), 2)

\* Lines 146-154.
orig_ijk(orig_shape, w2v, nf) ==
    LET set(ijk, a) == [ijk EXCEPT ![w2v[a]] = IF nf[a] THEN orig_shape[w2v[a]] - 1 ELSE 0]
    IN  set(set(set(Vec3(0, 0, 0), 0), 1), 2)

\* Lines 155-168.
ras_origin(affine, translation, ijk) ==
    [k \in Axes |->
        affine[k][0] * ijk[0] + affine[k][1] * ijk[1] + affine[k][2] * ijk[2] + translation[k]]

\* reorient_to_ras.  The result also carries the function's locals, which the
\* properties below speak about.  panicked: permuted_axes refused the axes.
reorient_to_ras(volume, hdr) ==
    LET affine == get_affine_3x3(hdr)
        translation == get_translation(hdr)
        v2w == voxel_to_world(affine)
        flip == voxel_flip(affine)
        w2v == world_to_voxel(v2w)
        nf == needs_flip(flip, w2v)
        locals == [affine |-> affine, translation |-> translation,
                   voxel_to_world |-> v2w, voxel_flip |-> flip, world_to_voxel |-> w2v]
    IN  IF ~IsPermutation(w2v)
        THEN [panicked |-> TRUE, locals |-> locals]
        ELSE [panicked |-> FALSE, locals |-> locals,
              vol |-> permute_and_flip(volume, w2v, nf),
              ras_spacing |-> ras_spacing(hdr, w2v),
              ras_origin |-> ras_origin(affine, translation, orig_ijk(volume.shape, w2v, nf))]

-----------------------------------------------------------------------------
(* The load pipeline.  A file (or a byte buffer) is modelled by what the   *)
(* external decoder makes of it: decode is "ok" with a header and the      *)
(* shape of the 3D grid, or names the step that returned Err.              *)

Undecodable(why) == [decode |-> why]

Decoded(hdr, shape) == [decode |-> "ok", hdr |-> hdr, shape |-> shape]

\* load_nifti: read_file / into_ndarray / into_dimensionality return Err
\* through `?`; otherwise reorient_to_ras runs and its result is Ok.
load_nifti(file) ==
    IF file.decode # "ok" THEN [tag |-> "Err", err |-> file.decode]
    ELSE LET r == reorient_to_ras(RawVolume(file.shape), file.hdr)
         IN  IF r.panicked THEN [tag |-> "panic", locals |-> r.locals]
             ELSE [tag |-> "Ok", locals |-> r.locals,
                   volume |-> r.vol, voxdim |-> r.ras_spacing, ras_origin |-> r.ras_origin]

\* load_nifti_reader ends as load_nifti does.
load_nifti_reader(bytes) == load_nifti(bytes)

\* load_nifti_bytes: the wasm32 build decodes the buffer, any other build bails.
load_nifti_bytes(target, bytes) ==
    IF target = "wasm32" THEN load_nifti_reader(bytes)
    ELSE [tag |-> "Err", err |-> "in-memory loading is only available on wasm"]

-----------------------------------------------------------------------------
(* NiftiViewer.                                                            *)

new ==
    [volume |-> None, voxdim |-> Vec3(1, 1, 1), ras_origin |-> Vec3(0, 0, 0),
     slice_x |-> 0, slice_y |-> 0, slice_z |-> 0,
     scroll_accum |-> Vec3(0, 0, 0), error_msg |-> None]

\* A variant of the Ok arm that keeps the slice indices of the old volume.
load_ok_keeps_slices(self, res) ==
    [self EXCEPT !.volume = Some(res.volume),
                 !.voxdim = res.voxdim,
                 !.ras_origin = res.ras_origin,
                 !.scroll_accum = Vec3(0, 0, 0),
                 !.error_msg = None]

\* A variant of the Ok arm that leaves scroll_accum as it was.
load_ok_keeps_scroll(self, res) ==
    [self EXCEPT !.slice_x = res.volume.shape[0] \div 2,
                 !.slice_y = res.volume.shape[1] \div 2,
                 !.slice_z = res.volume.shape[2] \div 2,
                 !.volume = Some(res.volume),
                 !.voxdim = res.voxdim,
                 !.ras_origin = res.ras_origin,
                 !.error_msg = None]

\* The Ok arm of load_from_path and load_from_bytes.
load_ok(self, res) ==
    [self EXCEPT !.slice_x = res.volume.shape[0] \div 2,
                 !.slice_y = res.volume.shape[1] \div 2,
                 !.slice_z = res.volume.shape[2] \div 2,
                 !.volume = Some(res.volume),
                 !.voxdim = res.voxdim,
                 !.ras_origin = res.ras_origin,
                 !.scroll_accum = Vec3(0, 0, 0),
                 !.error_msg = None]

\* A variant of the Err arm that also drops the volume.
load_err_drops_volume(self, res) ==
    [self EXCEPT !.volume = None, !.error_msg = Some(<<"Failed to load", res.err>>)]

\* The Err arm of load_from_path and load_from_bytes.
load_err(self, res) == [self EXCEPT !.error_msg = Some(<<"Failed to load", res.err>>)]

\* load_from_path on a load that returns (a panic never reaches the match).
load_from_path(self, res) == IF res.tag = "Ok" THEN load_ok(self, res) ELSE load_err(self, res)

load_from_bytes(self, res) == IF res.tag = "Ok" THEN load_ok(self, res) ELSE load_err(self, res)

isize_MAX == 2147483647

isize_MIN == -isize_MAX - 1

\* ((num / den).round() as isize) in f32: x/0 is NaN (0/0) or an infinity,
\* round keeps them, and the cast gives 0 for NaN and saturates an infinity;
\* round goes half away from zero.
F32DivRoundAsIsize(num, den) ==
    IF den = 0 THEN (IF num = 0 THEN 0 ELSE IF num > 0 THEN isize_MAX ELSE isize_MIN)
    ELSE LET q == (2 * Abs(num) + Abs(den)) \div (2 * Abs(den))
         IN  IF (num < 0) = (den < 0) THEN q ELSE -q

clamp(x, lo, hi) == IF x < lo THEN lo ELSE IF x > hi THEN hi ELSE x

voxel_to_mm(self, axis, idx) ==
    LET ras == self.ras_origin[axis] + idx * self.voxdim[axis]
    IN  IF axis < 2 THEN -ras ELSE ras

\* A variant of mm_to_voxel that forgets the display negation of axes 0 and 1.
mm_to_voxel_no_negation(self, axis, mm) ==
    LET n == Unwrap(self.volume).shape[axis]
        idx == F32DivRoundAsIsize(mm - self.ras_origin[axis], self.voxdim[axis])
    IN  clamp(idx, 0, n - 1)

mm_to_voxel(self, axis, mm) ==
    LET ras_mm == IF axis < 2 THEN -mm ELSE mm
        n == Unwrap(self.volume).shape[axis]
        idx == F32DivRoundAsIsize(ras_mm - self.ras_origin[axis], self.voxdim[axis])
    IN  clamp(idx, 0, n - 1)

\* slice_x, slice_y, slice_z by axis number.
slice(self, axis) == IF axis = 0 THEN self.slice_x ELSE IF axis = 1 THEN self.slice_y ELSE self.slice_z

with_slice(self, axis, idx) ==
    IF axis = 0 THEN [self EXCEPT !.slice_x = idx]
    ELSE IF axis = 1 THEN [self EXCEPT !.slice_y = idx]
    ELSE [self EXCEPT !.slice_z = idx]

\* The slider of one panel reported a change to mm (update, `resp.changed()`).
slider_changed(self, axis, mm) == with_slice(self, axis, mm_to_voxel(self, axis, mm))

\* The slider's range (update: mm_a, mm_b, min, max).
slider_range(self, axis) ==
    LET mm_a == voxel_to_mm(self, axis, 0)
        mm_b == voxel_to_mm(self, axis, Unwrap(self.volume).shape[axis] - 1)
    IN  (IF mm_a < mm_b THEN mm_a ELSE mm_b)..(IF mm_a < mm_b THEN mm_b ELSE mm_a)

step == 30

\* A variant of the upward loop that stops consuming at the last slice and
\* carries the rest of the scroll over to the next frame.
RECURSIVE scroll_up_carries_over(_, _, _)
scroll_up_carries_over(accum, idx, n) ==
    IF accum >= step /\ idx < n - 1
    THEN scroll_up_carries_over(accum - step, idx + 1, n)
    ELSE <<accum, idx>>

\* The two while loops of a panel's scroll handling, on <<accum, slice>>.
RECURSIVE scroll_up(_, _, _)
scroll_up(accum, idx, n) ==
    IF accum >= step
    THEN scroll_up(accum - step, IF idx < n - 1 THEN idx + 1 ELSE idx, n)
    ELSE <<accum, idx>>

RECURSIVE scroll_down(_, _)
scroll_down(accum, idx) ==
    IF accum <= -step
    THEN scroll_down(accum + step, IF idx > 0 THEN idx - 1 ELSE 0)
    ELSE <<accum, idx>>

\* The pointer is over one panel while the frame's scroll delta is delta.
scrolled(self, axis, delta) ==
    LET n == Unwrap(self.volume).shape[axis]
        up == scroll_up(self.scroll_accum[axis] + delta, slice(self, axis), n)
        down == scroll_down(up[1], up[2])
    IN  [with_slice(self, axis, down[2]) EXCEPT !.scroll_accum[axis] = down[1]]

\* vol.slice(s![.., idx, ..]) with idx at position axis: the plane of the
\* two remaining axes, in their order.
index_axis(vol, axis, idx) ==
    LET r0 == IF axis = 0 THEN 1 ELSE 0
        r1 == IF axis = 2 THEN 1 ELSE 2
    IN  [shape |-> <<vol.shape[r0], vol.shape[r1]>>,
         data |-> [p \in (0..(vol.shape[r0] - 1)) \X (0..(vol.shape[r1] - 1)) |->
                      vol.data[[a \in Axes |-> IF a = axis THEN idx
                                               ELSE IF a = r0 THEN p[1] ELSE p[2]]]]]

\* A variant of get_slices that always takes the axial plane at index 0.
get_slices_axial_at_0(self) ==
    IF ~IsSome(self.volume) THEN None
    ELSE LET vol == Unwrap(self.volume)
         IN  Some([sagittal |-> index_axis(vol, 0, self.slice_x),
                   coronal |-> index_axis(vol, 1, self.slice_y),
                   axial |-> index_axis(vol, 2, 0)])

\* get_slices: None without a volume, else the three planes through the
\* current slice indices.
get_slices(self) ==
    IF ~IsSome(self.volume) THEN None
    ELSE LET vol == Unwrap(self.volume)
         IN  Some([sagittal |-> index_axis(vol, 0, self.slice_x),
                   coronal |-> index_axis(vol, 1, self.slice_y),
                   axial |-> index_axis(vol, 2, self.slice_z)])

\* PENDING_BYTES, the thread-local slot of the wasm32 build.
set_pending_bytes(cell, bytes) == Some(bytes)

\* A variant of take_pending_bytes that reads the slot and leaves it full.
take_pending_bytes_leaves_bytes(cell) == [taken |-> cell, cell |-> cell]

\* take(): the value taken and what the slot holds afterwards.
take_pending_bytes(cell) == [taken |-> cell, cell |-> None]

-----------------------------------------------------------------------------
(* The inputs.                                                             *)

Shapes == [Axes -> 1..MaxDim]

UnitColumns == {[r \in Axes |-> IF r = k THEN s ELSE 0] : k \in Axes, s \in {-1, 1}}

\* The columns of the sform matrices: the signed unit vectors and the zero column.
SformColumns == UnitColumns \cup {Vec3(0, 0, 0)}

Matrix(c0, c1, c2) == [row \in Axes |-> Vec3(c0[row], c1[row], c2[row])]

\* The sform of the spec's concrete scenario: x reversed.
FlipX == Matrix(Vec3(-1, 0, 0), Vec3(0, 1, 0), Vec3(0, 0, 1))

\* Sheared, but with a dominant row in every column (rows 1, 0, 2).
Sheared == Matrix(Vec3(1, -2, 0), Vec3(3, 1, 1), Vec3(0, -1, 2))

\* Two columns whose dominant row is the same and comes first in column 1:
\* voxel_to_world = [1, 0, 0].
Collapsed == Matrix(Vec3(0, 1, 0), Vec3(1, 0, 0), Vec3(2, 1, 0))

SformMatrices ==
    {Matrix(c0, c1, c2) : c0 \in SformColumns, c1 \in SformColumns, c2 \in SformColumns}
    \cup {Sheared, Collapsed}

SformOffset == Vec3(3, -4, -2)

QformOffset == Vec3(-1, 2, 5)

HalfHalfHalf == Vec3(1, 1, 1)

PixDims == {Vec4(1, 1, 1, 1), Vec4(-1, 1, 1, 1), Vec4(-1, 2, 1, 3), Vec4(1, 0, 1, 1), Vec4(1, 0, 0, 0)}

\* Every header whose fields come from the sets above, with the sform
\* matrix or the quaternion (or both) held at one value.
Headers ==
    {Header(sc, qc, m, SformOffset, q, QformOffset, pd) :
        sc \in {0, 1}, qc \in {0, 1}, pd \in PixDims,
        m \in SformMatrices, q \in {HalfHalfHalf}}
    \cup
    {Header(sc, qc, m, SformOffset, q, QformOffset, pd) :
        sc \in {0, 1}, qc \in {0, 1}, pd \in PixDims,
        m \in {FlipX}, q \in Quaternions}

AllFiles ==
    {Undecodable("malformed"), Undecodable("not3d")}
    \cup {Decoded(hdr, shape) : hdr \in Headers, shape \in Shapes}

Cube == Vec3(MaxDim, MaxDim, MaxDim)

Slab == Vec3(1, MaxDim, 1)

\* The files of the interactive sessions: the scenario's sform, a qform
\* rotation with anisotropic spacing, the scenario's sform beside a zero
\* pixdim[1], two degenerate sforms, and two files that do not decode.
UiHeaders ==
    {Header(1, 1, FlipX, SformOffset, HalfHalfHalf, QformOffset, Vec4(1, 1, 1, 1)),
     Header(0, 1, FlipX, SformOffset, HalfHalfHalf, QformOffset, Vec4(-1, 2, 1, 3)),
     Header(1, 0, FlipX, SformOffset, HalfHalfHalf, QformOffset, Vec4(1, 0, 1, 1)),
     Header(1, 0, Collapsed, SformOffset, HalfHalfHalf, QformOffset, Vec4(1, 1, 1, 1)),
     Header(1, 0, Matrix(Vec3(1, 0, 0), Vec3(1, 0, 0), Vec3(0, 1, 0)),
            SformOffset, HalfHalfHalf, QformOffset, Vec4(1, 1, 1, 1))}

UiFiles ==
    {Undecodable("malformed"), Undecodable("not3d")}
    \cup {Decoded(hdr, shape) : hdr \in UiHeaders, shape \in {Cube, Slab}}

ScrollDeltas == {k * (step \div 2) : k \in (-MaxNotch)..MaxNotch}

-----------------------------------------------------------------------------
(* The state.                                                              *)

VARIABLES
    viewer,         \* the NiftiViewer
    PENDING_BYTES,  \* the wasm32 slot: Option<Vec<u8>>
    target_arch,    \* the build: "native" or "wasm32"
    process,        \* "running", or "panicked" once a panic unwound update
    attempt         \* the load the last step made, if it made one: its file,
                    \* how it ended, and reorient_to_ras' locals

vars == <<viewer, PENDING_BYTES, target_arch, process, attempt>>

Init ==
    /\ viewer = new
    /\ PENDING_BYTES = None
    /\ target_arch \in {"native", "wasm32"}
    /\ process = "running"
    /\ attempt = None

Attempt(file, res) ==
    IF res.tag = "Err" THEN Some([file |-> file, tag |-> res.tag])
    ELSE Some([file |-> file, tag |-> res.tag, locals |-> res.locals])

\* update, native build: "Load NIfTI..." is clicked and a file is picked.
UpdateLoadFromPath(file) ==
    /\ process = "running"
    /\ target_arch = "native"
    /\ LET res == load_nifti(file)
       IN  /\ attempt' = Attempt(file, res)
           /\ IF res.tag = "panic"
              THEN process' = "panicked" /\ UNCHANGED viewer
              ELSE viewer' = load_from_path(viewer, res) /\ UNCHANGED process
    /\ UNCHANGED <<PENDING_BYTES, target_arch>>

\* The FileReader's onloadend closure (wasm32) stores the bytes read.
OnLoadEnd(file) ==
    /\ process = "running"
    /\ target_arch = "wasm32"
    /\ PENDING_BYTES' = set_pending_bytes(PENDING_BYTES, file)
    /\ attempt' = None
    /\ UNCHANGED <<viewer, target_arch, process>>

\* update, wasm32 build, with bytes pending: they are taken and loaded.
UpdateLoadFromBytes ==
    /\ process = "running"
    /\ target_arch = "wasm32"
    /\ LET took == take_pending_bytes(PENDING_BYTES)
       IN  /\ IsSome(took.taken)
           /\ PENDING_BYTES' = took.cell
           /\ LET res == load_nifti_bytes(target_arch, Unwrap(took.taken))
              IN  /\ attempt' = Attempt(Unwrap(took.taken), res)
                  /\ IF res.tag = "panic"
                     THEN process' = "panicked" /\ UNCHANGED viewer
                     ELSE viewer' = load_from_bytes(viewer, res) /\ UNCHANGED process
    /\ UNCHANGED target_arch

\* update with a volume on screen and nothing pending: one slider changed.
UpdateSlider(axis) ==
    /\ process = "running"
    /\ PENDING_BYTES = None
    /\ IsSome(get_slices(viewer))
    /\ \E mm \in slider_range(viewer, axis) : viewer' = slider_changed(viewer, axis, mm)
    /\ attempt' = None
    /\ UNCHANGED <<PENDING_BYTES, target_arch, process>>

\* update with a volume on screen and nothing pending: the pointer is over
\* one panel and the frame carries a scroll delta.
UpdateScroll(axis) ==
    /\ process = "running"
    /\ PENDING_BYTES = None
    /\ IsSome(get_slices(viewer))
    /\ \E delta \in ScrollDeltas : viewer' = scrolled(viewer, axis, delta)
    /\ attempt' = None
    /\ UNCHANGED <<PENDING_BYTES, target_arch, process>>

Next ==
    \/ \E file \in UiFiles : UpdateLoadFromPath(file)
    \/ \E file \in UiFiles : OnLoadEnd(file)
    \/ UpdateLoadFromBytes
    \/ \E axis \in Axes : UpdateSlider(axis)
    \/ \E axis \in Axes : UpdateScroll(axis)

Spec == Init /\ [][Next]_vars

\* One load of any file into the fresh viewer of a native build.
InitLoad == Init /\ target_arch = "native"

FirstLoad == viewer = new /\ attempt = None /\ \E file \in AllFiles : UpdateLoadFromPath(file)

SpecLoad == InitLoad /\ [][FirstLoad]_vars

-----------------------------------------------------------------------------
(* Properties.                                                             *)

LoadAttempted == IsSome(attempt)

LoadReturned(tag) == IsSome(attempt) /\ Unwrap(attempt).tag = tag

Loaded == IsSome(viewer.volume)

Injective(f) == \A a \in Axes : \A b \in Axes : f[a] = f[b] => a = b

\* C1: a load that returns an error leaves volume, voxdim, ras_origin, the
\* three slice indices and scroll_accum as they were and leaves an error
\* message set; the volume changes only in a step whose load returned Ok.
C1_FailedLoadKeepsState ==
    [][ /\ (IsSome(attempt') /\ Unwrap(attempt').tag = "Err") =>
            /\ viewer'.volume = viewer.volume
            /\ viewer'.voxdim = viewer.voxdim
            /\ viewer'.ras_origin = viewer.ras_origin
            /\ viewer'.slice_x = viewer.slice_x
            /\ viewer'.slice_y = viewer.slice_y
            /\ viewer'.slice_z = viewer.slice_z
            /\ viewer'.scroll_accum = viewer.scroll_accum
            /\ IsSome(viewer'.error_msg)
        /\ viewer'.volume # viewer.volume =>
            (IsSome(attempt') /\ Unwrap(attempt').tag = "Ok") ]_vars

\* A load has just failed in a viewer that holds a volume, a slice index
\* moved off the centre and a scroll remainder.
C1_Witness ==
    /\ LoadReturned("Err")
    /\ Loaded
    /\ IsSome(viewer.error_msg)
    /\ viewer.scroll_accum[2] # 0
    /\ viewer.slice_x # Unwrap(viewer.volume).shape[0] \div 2

\* C2: whenever a volume is loaded, every slice index lies in [0, dim - 1]
\* of the loaded volume's axis.
C2_SlicesInRange ==
    Loaded => \A axis \in Axes :
        /\ 0 <= slice(viewer, axis)
        /\ slice(viewer, axis) <= Unwrap(viewer.volume).shape[axis] - 1

\* After a failed load, with the x index scrolled or dragged to the last
\* voxel of an axis of extent >= 2 and the y index at 0.
C2_Witness ==
    /\ Loaded
    /\ IsSome(viewer.error_msg)
    /\ Unwrap(viewer.volume).shape[0] >= 2
    /\ viewer.slice_x = Unwrap(viewer.volume).shape[0] - 1
    /\ Unwrap(viewer.volume).shape[1] >= 2
    /\ viewer.slice_y = 0

\* C3: for the loaded volume, every axis and every index i in range,
\* mm_to_voxel(axis, voxel_to_mm(axis, i)) = i.
C3_RoundTrip ==
    Loaded => \A axis \in Axes : \A i \in 0..(Unwrap(viewer.volume).shape[axis] - 1) :
        mm_to_voxel(viewer, axis, voxel_to_mm(viewer, axis, i)) = i

\* C4: for the loaded volume, every axis and every mm value, mm_to_voxel is
\* an index in [0, size - 1]; it is 0 when the RAS coordinate (the display
\* negation of axes 0 and 1 undone) lies before voxel 0 in the direction of
\* the spacing, and size - 1 when it lies past the last voxel.
C4_Clamping ==
    Loaded => \A axis \in Axes : \A mm \in (-MaxMm)..MaxMm :
        LET idx == mm_to_voxel(viewer, axis, mm)
            n == Unwrap(viewer.volume).shape[axis]
            s == viewer.voxdim[axis]
            d == (IF axis \in {0, 1} THEN -mm ELSE mm) - viewer.ras_origin[axis]
        IN  /\ idx \in 0..(n - 1)
            /\ (s # 0 /\ d * s < 0) => idx = 0
            /\ (s # 0 /\ d * s > (n - 1) * s * s) => idx = n - 1

\* A volume of extent >= 2 along x with a nonzero spacing, for which some mm
\* value lies before the first voxel and another past the last one.
C4_Witness ==
    /\ Loaded
    /\ Unwrap(viewer.volume).shape[0] >= 2
    /\ viewer.voxdim[0] # 0
    /\ \E mm \in (-MaxMm)..MaxMm : (-mm - viewer.ras_origin[0]) * viewer.voxdim[0] < 0
    /\ \E mm \in (-MaxMm)..MaxMm :
         (-mm - viewer.ras_origin[0]) * viewer.voxdim[0]
            > (Unwrap(viewer.volume).shape[0] - 1) * viewer.voxdim[0] * viewer.voxdim[0]

\* C5: whenever reorient_to_ras permuted the volume and returned, the
\* voxel_to_world it computed is a bijection on {0,1,2} and
\* world_to_voxel[voxel_to_world[c]] = c for every c.
C5_Bijection ==
    LoadReturned("Ok") =>
        LET l == Unwrap(attempt).locals
        IN  /\ Injective(l.voxel_to_world)
            /\ \A c \in Axes : l.world_to_voxel[l.voxel_to_world[c]] = c

\* Two voxel axes select the same world axis, or a column is all zero.
Degenerate(l) ==
    \/ ~Injective(l.voxel_to_world)
    \/ \E col \in Axes : \A row \in Axes : l.affine[row][col] = 0

\* C6: a decoded file whose direction matrix is degenerate ends as a load
\* error.
C6_DegenerateIsError ==
    (LoadAttempted /\ Unwrap(attempt).file.decode = "ok") =>
        \/ Unwrap(attempt).tag = "Err"
        \/ ~Degenerate(Unwrap(attempt).locals)

\* C7: every load either publishes a volume or records an error, and the
\* process keeps running.
C7_NoLoadIsFatal ==
    /\ process = "running"
    /\ LoadAttempted => Unwrap(attempt).tag \in {"Ok", "Err"}

\* The header of the file the last step loaded, and the source that the
\* precedence rule gives it.
AttemptHdr == Unwrap(attempt).file.hdr

GoverningSource(hdr) ==
    IF hdr.sform_code > 0 THEN "sform" ELSE IF hdr.qform_code > 0 THEN "qform" ELSE "spacing"

srow(hdr, row) == IF row = 0 THEN hdr.srow_x ELSE IF row = 1 THEN hdr.srow_y ELSE hdr.srow_z

\* The qform's direction matrix: the rotation of (b, c, d) with column c
\* scaled by pixdim[c + 1], the third also by qfac.
QformDirection(hdr) ==
    LET r4 == QuaternRotation4(hdr.quatern_b, hdr.quatern_c, hdr.quatern_d)
        scale == Vec3(hdr.pixdim[1], hdr.pixdim[2],
                      IF hdr.pixdim[0] < 0 THEN -hdr.pixdim[3] ELSE hdr.pixdim[3])
    IN  [row \in Axes |-> [col \in Axes |-> (r4[row][col] * scale[col]) \div 4]]

\* C8: the direction matrix and the translation of a load come from one
\* source: the sform when sform_code > 0, else the qform when
\* qform_code > 0, else the pixdim diagonal with a zero translation.
C8_SourcePrecedence ==
    (LoadAttempted /\ Unwrap(attempt).file.decode = "ok") =>
        LET hdr == AttemptHdr
            affine == Unwrap(attempt).locals.affine
            translation == Unwrap(attempt).locals.translation
            source == GoverningSource(hdr)
        IN  /\ source = "sform" =>
                \A row \in Axes :
                    /\ \A col \in Axes : affine[row][col] = srow(hdr, row)[col]
                    /\ translation[row] = srow(hdr, row)[3]
            /\ source = "qform" =>
                /\ affine = QformDirection(hdr)
                /\ translation = Vec3(hdr.quatern_x, hdr.quatern_y, hdr.quatern_z)
            /\ source = "spacing" =>
                /\ \A row \in Axes : \A col \in Axes :
                       affine[row][col] = IF row = col THEN hdr.pixdim[row + 1] ELSE 0
                /\ translation = Vec3(0, 0, 0)

\* A loaded header with both codes set whose sform and qform disagree in
\* matrix and in translation.
C8_Witness ==
    /\ LoadReturned("Ok")
    /\ AttemptHdr.sform_code > 0
    /\ AttemptHdr.qform_code > 0
    /\ QformDirection(AttemptHdr) # Unwrap(attempt).locals.affine
    /\ AttemptHdr.quatern_x # AttemptHdr.srow_x[3]

\* The voxel axis that a bijective voxel_to_world sends to world axis a.
VoxelAxisOf(v2w, a) == CHOOSE c \in Axes : v2w[c] = a

\* C9: when voxel_to_world is a bijection, the canonical volume's extent
\* along axis a is the original extent along world_to_voxel[a], and its voxel
\* at i is the original voxel at j, where j[world_to_voxel[a]] is
\* size - 1 - i[a] if that original axis is flipped and i[a] otherwise; so
\* every original voxel appears exactly once.
C9_PermuteAndFlip ==
    (LoadReturned("Ok") /\ Injective(Unwrap(attempt).locals.voxel_to_world)) =>
        LET l == Unwrap(attempt).locals
            size == Unwrap(attempt).file.shape
            vol == Unwrap(viewer.volume)
            w2v == [a \in Axes |-> VoxelAxisOf(l.voxel_to_world, a)]
        IN  /\ w2v = l.world_to_voxel
            /\ \A a \in Axes : vol.shape[a] = size[w2v[a]]
            /\ DOMAIN vol.data = Indices(vol.shape)
            /\ \A i \in Indices(vol.shape) :
                 \A a \in Axes :
                    vol.data[i][w2v[a]] =
                        IF l.voxel_flip[w2v[a]] THEN size[w2v[a]] - 1 - i[a] ELSE i[a]
            /\ {vol.data[i] : i \in Indices(vol.shape)} = Indices(size)
            /\ Cardinality(Indices(vol.shape)) = Cardinality(Indices(size))

\* A cyclic permutation of axes of different extents with one axis flipped
\* and another not.
C9_Witness ==
    /\ LoadReturned("Ok")
    /\ Unwrap(attempt).locals.voxel_to_world = Vec3(1, 2, 0)
    /\ Unwrap(attempt).locals.voxel_flip = Vec3(TRUE, FALSE, FALSE)
    /\ Unwrap(attempt).file.shape = Vec3(MaxDim, 1, MaxDim)

\* The spec's concrete scenario.
ScenarioHdr ==
    Header(1, 0, FlipX, Vec3(90, -126, -72), Vec3(0, 0, 0), Vec3(0, 0, 0), Vec4(1, 1, 1, 1))

ScenarioShape == Vec3(181, 217, 181)

\* C10: ras_origin is the original affine applied to the original index of
\* the voxel that became canonical (0,0,0), which is size - 1 along every
\* flipped axis and 0 along the others; and the scenario's header yields
\* voxel_to_world [0,1,2], flip [true,false,false], spacing [1,1,1] and
\* origin [-90,-126,-72].
C10_RasOrigin ==
    /\ LoadReturned("Ok") =>
        LET l == Unwrap(attempt).locals
            size == Unwrap(attempt).file.shape
            first == Unwrap(viewer.volume).data[Vec3(0, 0, 0)]
        IN  /\ \A a \in Axes :
                 first[l.world_to_voxel[a]] =
                    IF l.voxel_flip[l.world_to_voxel[a]] THEN size[l.world_to_voxel[a]] - 1 ELSE 0
            /\ \A k \in Axes :
                 viewer.ras_origin[k] =
                    l.affine[k][0] * first[0] + l.affine[k][1] * first[1]
                        + l.affine[k][2] * first[2] + l.translation[k]
    /\ LET affine == get_affine_3x3(ScenarioHdr)
           v2w == voxel_to_world(affine)
           flip == voxel_flip(affine)
           w2v == world_to_voxel(v2w)
           ijk == orig_ijk(ScenarioShape, w2v, needs_flip(flip, w2v))
       IN  /\ v2w = Vec3(0, 1, 2)
           /\ flip = Vec3(TRUE, FALSE, FALSE)
           /\ ras_spacing(ScenarioHdr, w2v) = Vec3(1, 1, 1)
           /\ ras_origin(affine, get_translation(ScenarioHdr), ijk) = Vec3(-90, -126, -72)

\* A load that swapped axes of different extents and flipped one of extent
\* >= 2, so that the origin is not the header's translation.
C10_Witness ==
    /\ LoadReturned("Ok")
    /\ Unwrap(attempt).locals.voxel_to_world = Vec3(1, 0, 2)
    /\ Unwrap(attempt).locals.voxel_flip = Vec3(TRUE, FALSE, FALSE)
    /\ Unwrap(attempt).file.shape = Vec3(MaxDim, 1, 1)
    /\ viewer.ras_origin # Unwrap(attempt).locals.translation

\* C11: a load of a file whose header has sform_code <= 0, qform_code <= 0
\* and pixdim[1..3] = (1,1,1) returns Ok with the input volume unpermuted and
\* unflipped (same shape, and at every index the voxel that the file holds
\* at that index), ras_origin [0,0,0] and voxdim [1,1,1], whatever pixdim[0].
C11_IdentityCase ==
    (/\ LoadAttempted
     /\ Unwrap(attempt).file.decode = "ok"
     /\ AttemptHdr.sform_code <= 0
     /\ AttemptHdr.qform_code <= 0
     /\ \A c \in 1..3 : AttemptHdr.pixdim[c] = 1)
    => /\ Unwrap(attempt).tag = "Ok"
       /\ Unwrap(viewer.volume).shape = Unwrap(attempt).file.shape
       /\ \A i \in Indices(Unwrap(attempt).file.shape) : Unwrap(viewer.volume).data[i] = i
       /\ viewer.ras_origin = Vec3(0, 0, 0)
       /\ viewer.voxdim = Vec3(1, 1, 1)

\* Such a load with a negative pixdim[0], of a grid with two voxels along z
\* and extents that differ between axes.
C11_Witness ==
    /\ LoadReturned("Ok")
    /\ AttemptHdr.sform_code <= 0
    /\ AttemptHdr.qform_code <= 0
    /\ AttemptHdr.pixdim = Vec4(-1, 1, 1, 1)
    /\ Unwrap(attempt).file.shape = Vec3(1, MaxDim, 2)
    /\ Loaded

\* C12: get_slices returns nothing when no volume is loaded; with a volume
\* it returns the three planes sagittal[j,k] = volume[slice_x,j,k],
\* coronal[i,k] = volume[i,slice_y,k] and axial[i,j] = volume[i,j,slice_z],
\* each over the full extent of its two axes.
C12_GetSlices ==
    /\ ~Loaded => get_slices(viewer) = None
    /\ Loaded =>
        /\ IsSome(get_slices(viewer))
        /\ LET vol == Unwrap(viewer.volume)
               planes == Unwrap(get_slices(viewer))
               I == 0..(vol.shape[0] - 1)
               J == 0..(vol.shape[1] - 1)
               K == 0..(vol.shape[2] - 1)
           IN  /\ DOMAIN planes.sagittal.data = J \X K
               /\ DOMAIN planes.coronal.data = I \X K
               /\ DOMAIN planes.axial.data = I \X J
               /\ \A j \in J : \A k \in K :
                    planes.sagittal.data[<<j, k>>] = vol.data[Vec3(viewer.slice_x, j, k)]
               /\ \A i \in I : \A k \in K :
                    planes.coronal.data[<<i, k>>] = vol.data[Vec3(i, viewer.slice_y, k)]
               /\ \A i \in I : \A j \in J :
                    planes.axial.data[<<i, j>>] = vol.data[Vec3(i, j, viewer.slice_z)]

\* A volume with two voxels along every axis, shown at three slice indices
\* that are not all at the centre.
C12_Witness ==
    /\ Loaded
    /\ \A a \in Axes : Unwrap(viewer.volume).shape[a] >= 2
    /\ viewer.slice_x = 0
    /\ viewer.slice_y = 1
    /\ viewer.slice_z = Unwrap(viewer.volume).shape[2] - 1

\* C13: a step whose load returned Ok leaves the viewer with the volume,
\* voxdim and ras_origin of that one load result, each slice index at
\* floor(dim / 2) of the new volume's axis, scroll_accum zero and no error
\* message, whatever the viewer held before.
C13_LoadReplacesState ==
    [][ (IsSome(attempt') /\ Unwrap(attempt').tag = "Ok") =>
            LET res == load_nifti(Unwrap(attempt').file)
            IN  /\ viewer'.volume = Some(res.volume)
                /\ viewer'.voxdim = res.voxdim
                /\ viewer'.ras_origin = res.ras_origin
                /\ \A a \in Axes :
                     /\ 2 * slice(viewer', a) <= res.volume.shape[a]
                     /\ res.volume.shape[a] < 2 * slice(viewer', a) + 2
                /\ viewer'.scroll_accum = Vec3(0, 0, 0)
                /\ viewer'.error_msg = None
      ]_vars

\* The state after a successful load of a grid with unequal extents and a
\* header whose spacing and origin are not the defaults of a new viewer.
C13_Witness ==
    /\ LoadReturned("Ok")
    /\ \E a \in Axes : Unwrap(viewer.volume).shape[a] = 1 /\ slice(viewer, a) = 0
    /\ \E a \in Axes : Unwrap(viewer.volume).shape[a] = MaxDim /\ slice(viewer, a) = MaxDim \div 2
    /\ viewer.voxdim # new.voxdim
    /\ viewer.ras_origin # new.ras_origin

\* A direction matrix that is a permutation with a signed scale per axis:
\* one nonzero entry in every column and in every row.
SignedPermutation(affine) ==
    /\ \A c \in Axes : Cardinality({r \in Axes : affine[r][c] # 0}) = 1
    /\ \A r \in Axes : Cardinality({c \in Axes : affine[r][c] # 0}) = 1

\* C14: after a load whose direction matrix is a permutation with signed
\* per-axis scale, for every axis a and canonical index i in range,
\* ras_origin[a] + i * voxdim[a] is the a-th world coordinate that the
\* header's direction matrix and translation give to the original voxel
\* now at canonical index i along a (0 along the other axes), also when the
\* sform's scale differs from pixdim[1..3].
C14_PublishedMapping ==
    (LoadReturned("Ok") /\ SignedPermutation(Unwrap(attempt).locals.affine)) =>
        LET l == Unwrap(attempt).locals
            vol == Unwrap(viewer.volume)
        IN  \A a \in Axes : \A i \in 0..(vol.shape[a] - 1) :
                LET orig == vol.data[[b \in Axes |-> IF b = a THEN i ELSE 0]]
                IN  viewer.ras_origin[a] + i * viewer.voxdim[a] =
                        l.affine[a][0] * orig[0] + l.affine[a][1] * orig[1]
                            + l.affine[a][2] * orig[2] + l.translation[a]

\* The scroll deltas of a frame that carries up to two wheel events.
BurstDeltas == {d1 + d2 : d1 \in ScrollDeltas, d2 \in ScrollDeltas}

\* C15: with a volume loaded, a scroll of delta over the panel of an axis
\* adds delta to that axis's scroll_accum and consumes every whole 30 units
\* as one slice step, up for a positive total and down for a negative one,
\* saturating at dim - 1 and at 0; afterwards the accumulator is the total
\* less the consumed units, whether or not the steps moved the slice, and is
\* below 30 in magnitude; the other two axes' accumulators and slice
\* indices, and the rest of the viewer, are unchanged.
C15_ScrollStepping ==
    Loaded => \A axis \in Axes : \A delta \in BurstDeltas :
        LET after == scrolled(viewer, axis, delta)
            n == Unwrap(viewer.volume).shape[axis]
            total == viewer.scroll_accum[axis] + delta
            ups == IF total >= 30 THEN total \div 30 ELSE 0
            downs == IF total <= -30 THEN (-total) \div 30 ELSE 0
            moved == slice(viewer, axis) + ups - downs
        IN  /\ after.scroll_accum[axis] = total - 30 * ups + 30 * downs
            /\ Abs(after.scroll_accum[axis]) < 30
            /\ slice(after, axis) = IF moved > n - 1 THEN n - 1 ELSE IF moved < 0 THEN 0 ELSE moved
            /\ \A b \in Axes \ {axis} :
                 /\ after.scroll_accum[b] = viewer.scroll_accum[b]
                 /\ slice(after, b) = slice(viewer, b)
            /\ after.volume = viewer.volume
            /\ after.voxdim = viewer.voxdim
            /\ after.ras_origin = viewer.ras_origin
            /\ after.error_msg = viewer.error_msg

\* Scrolling has left the z slice at the last voxel of an axis of extent
\* >= 2 with half a step still accumulated upwards, and half a step
\* downwards on the x axis: a further scroll of one and a half steps up is
\* two whole steps, consumed at the saturated end.
C15_Witness ==
    /\ Loaded
    /\ Unwrap(viewer.volume).shape[2] >= 2
    /\ viewer.slice_z = Unwrap(viewer.volume).shape[2] - 1
    /\ viewer.scroll_accum[2] = step \div 2
    /\ viewer.scroll_accum[0] = -(step \div 2)
    /\ 3 * (step \div 2) \in BurstDeltas

\* C16: in the wasm32 build, a step that loads takes the buffer that the
\* slot holds and leaves the slot empty, so no later update loads it again;
\* a step from an empty slot loads nothing; a step that leaves the slot
\* full (the callback storing) loads nothing and leaves the viewer alone;
\* and a store into a full slot leaves only the newly stored buffer there,
\* so that the first of two buffers stored before an update is never loaded.
C16_PendingHandOff ==
    [][ target_arch = "wasm32" =>
            /\ IsSome(attempt') =>
                 /\ IsSome(PENDING_BYTES)
                 /\ Unwrap(attempt').file = Unwrap(PENDING_BYTES)
                 /\ PENDING_BYTES' = None
            /\ PENDING_BYTES = None =>
                 /\ attempt' = None
                 /\ viewer'.volume = viewer.volume
                 /\ viewer'.voxdim = viewer.voxdim
                 /\ viewer'.ras_origin = viewer.ras_origin
                 /\ viewer'.error_msg = viewer.error_msg
            /\ PENDING_BYTES' # None => (viewer' = viewer /\ attempt' = None)
            /\ \A bytes \in UiFiles :
                 set_pending_bytes(PENDING_BYTES, bytes) = Some(bytes)
      ]_vars

\* The wasm32 viewer right after an update took a decodable buffer from the
\* slot and loaded it, with the slot empty again.
C16_Witness ==
    /\ target_arch = "wasm32"
    /\ LoadReturned("Ok")
    /\ Loaded
    /\ PENDING_BYTES = None

====
